---- MODULE Spec2Model ----
(***************************************************************************)
(* A model of commands/components.py of aladdin-project-tools: the        *)
(* component dependency graph (_get_component_graph, _get_dependents_for) *)
(* and the two commands that call the build invoker, `edit` and `build`.  *)
(* The file system (component.yaml, poetry.lock, Dockerfile) and the      *)
(* child processes (docker inspect, docker run, aladdin build) are the    *)
(* environment: their contents and return codes are drawn from small sets.*)
(***************************************************************************)
EXTENDS Integers, Sequences, FiniteSets, TLC

(***************************************************************************)
(* Bounds of the model.                                                    *)
(***************************************************************************)
\* number of sub-directories of components/ (the members of Component)
NumComponents == 3
\* how far the components/ tree is from the plain layout in which every component
\* has a Dockerfile and a valid component.yaml with "dependencies: []": the number
\* of single changes (one more declared dependency, a missing or empty
\* component.yaml, a missing "dependencies" key, ...) made to it
MaxEdits == 2
\* number of component names given to `build` on the command line
MaxArguments == 2

(***************************************************************************)
(* The registry: Component, the enum built from os.listdir at import.      *)
(***************************************************************************)
NamePool == <<"api", "shared", "web", "worker", "docs", "jobs">>

\* the members of Component, in definition (= iteration) order
Component == [i \in 1..NumComponents |-> NamePool[i]]

Components == {Component[i] : i \in 1..NumComponents}

\* a name that is no sub-directory of components/
UnknownName == "ghost"

Names == Components \cup {UnknownName}

Range(s) == {s[i] : i \in 1..Len(s)}

(***************************************************************************)
(* component.yaml, as yaml.safe_load sees it.                              *)
(*   kind "absent"  : no file (FileNotFoundError)                          *)
(*   kind "null"    : an empty file, which safe_load turns into None       *)
(*   kind "mapping" : a non-empty mapping; hasDeps says whether it has the *)
(*                    key "dependencies", deps is that list, and schemaOk  *)
(*                    whether the document satisfies component_schema.json *)
(***************************************************************************)
AbsentConfig == [kind |-> "absent", hasDeps |-> FALSE, deps |-> <<>>, schemaOk |-> TRUE]

NullConfig == [kind |-> "null", hasDeps |-> FALSE, deps |-> <<>>, schemaOk |-> TRUE]

Mapping(has, ds, ok) == [kind |-> "mapping", hasDeps |-> has, deps |-> ds, schemaOk |-> ok]

\* What _get_component_config returns: the document the file holds (None for an
\* empty file, a dict for a mapping), or the empty dictionary {} when there is no
\* file.
EmptyDict == [kind |-> "{}", hasDeps |-> FALSE, deps |-> <<>>, schemaOk |-> TRUE]

_get_component_config(config, c) ==
    IF config[c].kind = "absent"
    THEN EmptyDict
    ELSE IF config[c].kind = "null"
         THEN [kind |-> "None", hasDeps |-> FALSE, deps |-> <<>>, schemaOk |-> TRUE]
         ELSE [config[c] EXCEPT !.kind = "dict"]

\* Python's truth value of the document: None and {} are false
Truthy(component_yaml) == component_yaml.kind = "dict"

\* component_yaml.get("dependencies", []) on a dictionary
GetDependencies(component_yaml) ==
    IF component_yaml.hasDeps THEN component_yaml.deps ELSE <<>>

(***************************************************************************)
(* _get_component_graph.  The result is either the graph or the exception  *)
(* that leaves the function; a raised exception carries no graph.          *)
(***************************************************************************)
NoGraph == [kind |-> "unbuilt", nodes |-> {}, edges |-> {}, args |-> <<>>, cycle |-> <<>>]

Raise(exc, args, cycle) ==
    [kind |-> exc, nodes |-> {}, edges |-> {}, args |-> args, cycle |-> cycle]

\* no node at all: the graph without the call of add_nodes_from
NoNodes == {}

\* components.add_nodes_from(Component)
AddNodesFromComponent == Components

\* add_edges_from also adds the end points of the edges as nodes
EdgeNodes(edges) == {e[1] : e \in edges} \cup {e[2] : e \in edges}

\* the edge drawn from the dependent to its dependency
DependentToDependency(dependency, component) == <<component, dependency>>

\* the edge added for `dependency` declared by `component`
DependencyEdge(dependency, component) == <<dependency, component>>

\* The loop of lines 586-591: for the components from index i on and the
\* dependencies of component i from index j on, add the edges to `edges`.
\* Component[dependency] raises KeyError(dependency) for an unknown name and
\* None.get raises AttributeError; both leave the function.
RECURSIVE AddEdges(_, _, _, _)
AddEdges(config, i, j, edges) ==
    IF i > NumComponents
    THEN [kind |-> "edges", edges |-> edges, args |-> <<>>]
    ELSE LET component == Component[i]
             component_yaml == _get_component_config(config, component)
         IN  IF component_yaml.kind = "None"
             THEN [kind |-> "AttributeError", edges |-> {}, args |-> <<"get">>]
             ELSE LET deps == GetDependencies(component_yaml)
                  IN  IF j > Len(deps)
                      THEN AddEdges(config, i + 1, 1, edges)
                      ELSE IF deps[j] \notin Components
                           THEN [kind |-> "KeyError", edges |-> {}, args |-> <<deps[j]>>]
                           ELSE AddEdges(config, i, j + 1,
                                         edges \cup {DependencyEdge(deps[j], component)})

\* successors of a node, in registry order
Successors(edges, n) ==
    SelectSeq(Component, LAMBDA m : <<n, m>> \in edges)

\* the edges along a path of nodes
PathEdges(path) == [k \in 1..(Len(path) - 1) |-> <<path[k], path[k + 1]>>]

\* the part of a path from the first occurrence of node n
RECURSIVE From(_, _)
From(path, n) == IF path[1] = n THEN path ELSE From(Tail(path), n)

\* depth-first search along `path` (the active path, ending in the node being
\* expanded) through the successors succ[k..]; the edges of the first cycle met,
\* or <<>>
RECURSIVE Dfs(_, _, _, _)
Dfs(edges, path, succ, k) ==
    IF k > Len(succ)
    THEN <<>>
    ELSE LET head == succ[k]
         IN  IF head \in Range(path)
             THEN PathEdges(Append(From(path, head), head))
             ELSE LET found == Dfs(edges, Append(path, head), Successors(edges, head), 1)
                  IN  IF found # <<>> THEN found ELSE Dfs(edges, path, succ, k + 1)

\* networkx find_cycle(components): a list of edges forming a cycle, or <<>>
\* where networkx raises NetworkXNoCycle.  Start nodes are tried in node order.
RECURSIVE FindCycleFrom(_, _)
FindCycleFrom(edges, i) ==
    IF i > NumComponents
    THEN <<>>
    ELSE LET found == Dfs(edges, <<Component[i]>>, Successors(edges, Component[i]), 1)
         IN  IF found # <<>> THEN found ELSE FindCycleFrom(edges, i + 1)

\* a search that never follows an edge from a node to itself
FindCycleIgnoringSelfLoops(edges) == FindCycleFrom({e \in edges : e[1] # e[2]}, 1)

find_cycle(edges) == FindCycleFrom(edges, 1)

_get_component_graph(config) ==
    LET built == AddEdges(config, 1, 1, {})
    IN  IF built.kind # "edges"
        THEN Raise(built.kind, built.args, <<>>)
        ELSE LET cycles == find_cycle(built.edges)
             IN  IF cycles = <<>>
                 THEN [kind |-> "graph",
                       nodes |-> AddNodesFromComponent \cup EdgeNodes(built.edges),
                       edges |-> built.edges, args |-> <<>>, cycle |-> <<>>]
                 ELSE Raise("RuntimeError",
                            <<"Cycles found in component dependency graph">>, cycles)

(***************************************************************************)
(* _get_dependents_for: dag.descendants, then dag.topological_sort of the  *)
(* subgraph induced by the descendants.                                    *)
(***************************************************************************)
\* breadth-first closure of `seen` along the edges
RECURSIVE Bfs(_, _)
Bfs(edges, seen) ==
    LET next == seen \cup {e[2] : e \in {d \in edges : d[1] \in seen}}
    IN  IF next = seen THEN seen ELSE Bfs(edges, next)

\* only the nodes one edge away from source
DirectSuccessors(edges, source) == {e[2] : e \in {d \in edges : d[1] = source}}

\* networkx dag.descendants(G, source): the nodes reachable from source, without it
descendants(edges, source) == Bfs(edges, {source}) \ {source}

\* components.subgraph(nodes): the edges with both ends in nodes
subgraph(edges, nodes) == {e \in edges : e[1] \in nodes /\ e[2] \in nodes}

\* the nodes of `nodes` that no edge to a node still to be emitted leaves: a sort
\* that starts from the sinks
ZeroOutdegree(edges, nodes) ==
    {n \in nodes : \A e \in edges : ~(e[1] = n /\ e[2] \in nodes)}

\* the nodes of `nodes` that no edge from a node still to be emitted enters
ZeroIndegree(edges, nodes) ==
    {n \in nodes : \A e \in edges : ~(e[2] = n /\ e[1] \in nodes)}

\* the nodes in any order: a sort that ignores the edges
RECURSIVE AnyOrder(_, _)
AnyOrder(edges, nodes) ==
    IF nodes = {}
    THEN {<<>>}
    ELSE UNION {{<<n>> \o rest : rest \in AnyOrder(edges, nodes \ {n})} : n \in nodes}

\* networkx dag.topological_sort: Kahn's algorithm.  Which zero-indegree node
\* comes next depends on the iteration order of a set of enum members (their
\* hashes are randomised per process), so every order the algorithm can emit is
\* a possible result.
RECURSIVE topological_sort(_, _)
topological_sort(edges, nodes) ==
    IF nodes = {}
    THEN {<<>>}
    ELSE UNION {{<<n>> \o rest : rest \in topological_sort(edges, nodes \ {n})} :
                n \in ZeroIndegree(edges, nodes)}

\* the tuples _get_dependents_for(component) can return on a built graph
_get_dependents_for(g, component) ==
    LET dependents == descendants(g.edges, component)
    IN  topological_sort(subgraph(g.edges, dependents), dependents)

(***************************************************************************)
(* The components/ tree: for every component its component.yaml and        *)
(* whether it has a Dockerfile.                                            *)
(***************************************************************************)
PlainConfig == Mapping(TRUE, <<>>, TRUE)

PlainLayout ==
    [config |-> [c \in Components |-> PlainConfig],
     dockerfile |-> [c \in Components |-> TRUE]]

\* the changes of one component.yaml that the dependency graph can observe
GraphEdits(cfg) ==
    IF cfg.kind # "mapping" \/ ~cfg.hasDeps
    THEN {}
    ELSE {[cfg EXCEPT !.deps = Append(cfg.deps, n)] : n \in Names}
         \cup (IF cfg.deps = <<>>
                THEN {AbsentConfig, NullConfig, Mapping(FALSE, <<>>, cfg.schemaOk)}
                ELSE {})

\* the changes of one component.yaml that only validation can observe
SchemaEdits(cfg) ==
    IF cfg.kind = "mapping" /\ cfg.schemaOk THEN {[cfg EXCEPT !.schemaOk = FALSE]} ELSE {}

\* the layouts one change away from layout l
EditsOf(l, withValidation) ==
    UNION {{[l EXCEPT !.config[c] = cfg] :
                cfg \in GraphEdits(l.config[c])
                         \cup (IF withValidation THEN SchemaEdits(l.config[c]) ELSE {})} :
           c \in Components}
    \cup (IF withValidation
           THEN {[l EXCEPT !.dockerfile[c] = FALSE] : c \in {d \in Components : l.dockerfile[d]}}
           ELSE {})

RECURSIVE LayoutsWithin(_, _)
LayoutsWithin(k, withValidation) ==
    IF k = 0
    THEN {PlainLayout}
    ELSE LET below == LayoutsWithin(k - 1, withValidation)
         IN  below \cup UNION {EditsOf(l, withValidation) : l \in below}

\* The trees a command starts from.  For `edit` only the changes the dependency
\* graph can observe are made (withValidation is FALSE); for `build` also those
\* that validation observes.
Layouts(withValidation) == LayoutsWithin(MaxEdits, withValidation)

(***************************************************************************)
(* poetry.lock and its digest.                                             *)
(***************************************************************************)
NoLockFile == [exists |-> FALSE, content |-> ""]

LockFile(content) == [exists |-> TRUE, content |-> content]

\* the lock-file contents of the model; "" is an empty poetry.lock
LockContents == {"", "lockA"}

LockStates == {NoLockFile} \cup {LockFile(b) : b \in LockContents}

\* the file before the session: none, or one with content
InitialLockStates == {NoLockFile, LockFile("lockA")}

\* hashlib.md5(content).hexdigest()
md5_hexdigest(content) ==
    IF content = ""
    THEN "d41d8cd98f00b204e9800998ecf8427e"
    ELSE IF content = "lockA"
         THEN "dc8bad83cb568285dfc7db109bf15c72"
         ELSE "889c9a3ffc1fc5eb002e53be7d689524"

\* Python's None, and a str
None == [type |-> "NoneType", str |-> ""]

Str(s) == [type |-> "str", str |-> s]

\* a local variable that has not been assigned yet
Unassigned == [type |-> "unassigned", str |-> ""]

\* a digest function that hashes a missing file like an empty one
DigestOfMissingAsEmpty(lock, c) ==
    Str(md5_hexdigest(IF lock[c].exists THEN lock[c].content ELSE ""))

\* the function falls off its end, and so returns None, when there is no file
_get_poetry_lock_file_md5_digest(lock, c) ==
    IF lock[c].exists THEN Str(md5_hexdigest(lock[c].content)) ELSE None

(***************************************************************************)
(* How a command ends.                                                     *)
(***************************************************************************)
Running == [status |-> "running", code |-> 0, exc |-> ""]

\* the command function returns: exit code 0
Returned == [status |-> "returned", code |-> 0, exc |-> ""]

\* raise typer.Exit(code)
Exit(code) == [status |-> "Exit", code |-> code, exc |-> ""]

\* raise typer.Abort(): click prints "Aborted!" and exits with code 1
Abort == [status |-> "Abort", code |-> 1, exc |-> ""]

\* an exception nobody catches: a traceback and exit code 1
Uncaught(exc) == [status |-> "raised", code |-> 1, exc |-> exc]

\* return codes of a child process: success and a failure
ReturnCodes == {0, 1}

(***************************************************************************)
(* State.                                                                  *)
(***************************************************************************)
VARIABLES
    cmd,              \* the command that runs: "edit" or "build"
    component,        \* edit: its argument
    components,       \* build: its argument, [none |-> BOOLEAN, list |-> Seq(Components)]
    config,           \* components/<c>/component.yaml for every component c
    config_before,    \* the same files as they were when the command started
    dockerfile,       \* whether components/<c>/Dockerfile exists
    lock,             \* components/<c>/poetry.lock for every component c
    lock_before,      \* the same files as they were when the command started
    pc,               \* the statement the command is at
    poetry_lock_md5,  \* edit: the digest taken before the session
    md5_after,        \* edit: the digest taken after the session
    graph,            \* the result of the last call of _get_component_graph
    dependents,       \* edit: the tuple _get_dependents_for returned
    editor_image,     \* edit: what docker inspect said: "unchecked", "present", "missing"
    session,          \* edit: what _docker_run did
    validated,        \* build: the components _validate_component was called for, in order
    builds,           \* the calls of _aladdin_build, in order: arguments and return code
    trace,            \* the steps taken so far, in order
    outcome           \* how the command ended, or Running

vars == <<cmd, component, components, config, config_before, lock_before, editor_image,
          dockerfile, lock, pc, poetry_lock_md5,
          md5_after, graph, dependents, session, validated, builds, trace, outcome>>

\* _docker_run: not called yet, raised, or returned the completed process
NotRun == [state |-> "not_run", returncode |-> 0]

DockerRunRaised == [state |-> "raised", returncode |-> 0]

CompletedProcess(returncode) == [state |-> "returned", returncode |-> returncode]

\* one call of _aladdin_build
AladdinBuild(names, returncode) == [components |-> names, returncode |-> returncode]

NoArgument == [none |-> TRUE, list |-> <<>>]

InitEdit ==
    /\ cmd = "edit"
    /\ \E l \in Layouts(FALSE) : config = l.config /\ dockerfile = l.dockerfile
    /\ component \in Components
    /\ components = NoArgument
    /\ config_before = config
    /\ \E ls \in InitialLockStates :
          lock = [c \in Components |-> IF c = component THEN ls ELSE NoLockFile]
    /\ lock_before = lock
    /\ pc = "lamp"
    /\ poetry_lock_md5 = Unassigned
    /\ md5_after = Unassigned
    /\ graph = NoGraph
    /\ dependents = <<>>
    /\ editor_image = "unchecked"
    /\ session = NotRun
    /\ validated = <<>>
    /\ builds = <<>>
    /\ trace = <<>>
    /\ outcome = Running

\* the lists of at most n different components
RECURSIVE ArgumentLists(_)
ArgumentLists(n) ==
    IF n = 0
    THEN {<<>>}
    ELSE LET shorter == ArgumentLists(n - 1)
         IN  shorter \cup {Append(l, c) : l \in shorter, c \in Components}

\* What typer passes for `components`.  Without a name on the command line it is
\* [] or None, depending on the typer release (the default is None).
BuildArguments ==
    {NoArgument} \cup
    {[none |-> FALSE, list |-> l] :
        l \in {m \in ArgumentLists(MaxArguments) : Cardinality(Range(m)) = Len(m)}}

InitBuild ==
    /\ cmd = "build"
    /\ \E l \in Layouts(TRUE) : config = l.config /\ dockerfile = l.dockerfile
    /\ component = Component[1]
    /\ components \in BuildArguments
    /\ config_before = config
    /\ lock = [c \in Components |-> NoLockFile]
    /\ lock_before = lock
    /\ pc = "validate"
    /\ poetry_lock_md5 = Unassigned
    /\ md5_after = Unassigned
    /\ graph = NoGraph
    /\ dependents = <<>>
    /\ editor_image = "unchecked"
    /\ session = NotRun
    /\ validated = <<>>
    /\ builds = <<>>
    /\ trace = <<>>
    /\ outcome = Running

Init == InitEdit \/ InitBuild

End(o) == pc' = "done" /\ outcome' = o

Step(name) == trace' = Append(trace, name)

(***************************************************************************)
(* edit                                                                    *)
(***************************************************************************)
\* lines 700-703: lamp.json is read; open() raises when it is missing
EditReadLamp ==
    /\ cmd = "edit" /\ pc = "lamp"
    /\ Step("lamp")
    /\ \/ pc' = "inspect" /\ outcome' = outcome
       \/ End(Uncaught("FileNotFoundError"))
    /\ UNCHANGED <<config_before, lock_before, editor_image, cmd, component, components,
                   config, dockerfile, lock, poetry_lock_md5, md5_after, graph, dependents,
                   session, validated, builds>>

\* EditInspectImage without check=True: a missing image goes unnoticed
EditInspectImageUnchecked ==
    /\ cmd = "edit" /\ pc = "inspect"
    /\ Step("inspect")
    /\ editor_image' \in {"present", "missing"}
    /\ pc' = "md5_before" /\ outcome' = outcome
    /\ UNCHANGED <<config_before, lock_before, cmd, component, components, config,
                   dockerfile, lock, poetry_lock_md5, md5_after, graph, dependents, session,
                   validated, builds>>

\* lines 704-709: docker inspect <project>-<component>:editor, which fails
\* (CalledProcessError, turned into typer.Abort) when there is no such image
EditInspectImage ==
    /\ cmd = "edit" /\ pc = "inspect"
    /\ Step("inspect")
    /\ \/ editor_image' = "present" /\ pc' = "md5_before" /\ outcome' = outcome
       \/ editor_image' = "missing" /\ End(Abort)
    /\ UNCHANGED <<config_before, lock_before, cmd, component, components, config,
                   dockerfile, lock, poetry_lock_md5, md5_after, graph, dependents, session,
                   validated, builds>>

\* line 711
EditDigestBefore ==
    /\ cmd = "edit" /\ pc = "md5_before"
    /\ Step("md5_before")
    /\ poetry_lock_md5' = _get_poetry_lock_file_md5_digest(lock, component)
    /\ pc' = "session"
    /\ UNCHANGED <<config_before, lock_before, editor_image, cmd, component, components,
                   config, dockerfile, lock, md5_after, graph, dependents, session,
                   validated, builds, outcome>>

\* the number of changes of GraphEdits that lead from the plain file to cfg
Distance(cfg) ==
    IF cfg.kind = "mapping" /\ cfg.hasDeps THEN Len(cfg.deps) ELSE 1

RECURSIVE TotalDistance(_, _)
TotalDistance(cfgs, i) ==
    IF i > NumComponents THEN 0 ELSE Distance(cfgs[Component[i]]) + TotalDistance(cfgs, i + 1)

\* the user appends `edited` to the "dependencies" of a component.yaml
AddDependent(cfg, edited) ==
    IF cfg.kind = "mapping" /\ cfg.hasDeps
    THEN {[cfg EXCEPT !.deps = Append(cfg.deps, edited)]}
    ELSE {}

\* the user takes `edited` away from the end of the "dependencies"
RemoveDependent(cfg, edited) ==
    IF cfg.kind = "mapping" /\ cfg.hasDeps /\ cfg.deps # <<>> /\ cfg.deps[Len(cfg.deps)] = edited
    THEN {[cfg EXCEPT !.deps = SubSeq(cfg.deps, 1, Len(cfg.deps) - 1)]}
    ELSE {}

\* What the user does to the component.yaml files in the session (components/
\* is mounted in the container): nothing, or one file gains the edited component
\* as a dependency, or one file loses it.
SessionConfigs(cfgs, edited) ==
    {cfgs} \cup
    UNION {{[cfgs EXCEPT ![c] = cfg] :
                cfg \in RemoveDependent(cfgs[c], edited)
                         \cup (IF TotalDistance(cfgs, 1) < MaxEdits
                                THEN AddDependent(cfgs[c], edited)
                                ELSE {})} :
           c \in Components}

\* EditSession without the test of the return code (lines 712-716 without "if")
EditSessionUnchecked ==
    /\ cmd = "edit" /\ pc = "session"
    /\ Step("session")
    /\ \E returncode \in ReturnCodes :
          /\ session' = CompletedProcess(returncode)
          /\ \E ls \in LockStates : lock' = [lock EXCEPT ![component] = ls]
          /\ config' \in SessionConfigs(config, component)
          /\ pc' = "md5_after" /\ outcome' = outcome
    /\ UNCHANGED <<config_before, lock_before, editor_image, cmd, component, components,
                   dockerfile, poetry_lock_md5, md5_after, graph, dependents, validated,
                   builds>>

\* lines 712-716: _docker_run(...).  _get_workdir runs the image with check=True
\* and so can raise before the session starts; otherwise the session runs, the
\* user may change the component's poetry.lock and a component.yaml, and the
\* return code of the shell (that of its last command) comes back.
EditSession ==
    /\ cmd = "edit" /\ pc = "session"
    /\ Step("session")
    /\ \/ /\ session' = DockerRunRaised
          /\ End(Uncaught("CalledProcessError")) /\ UNCHANGED <<config, lock>>
       \/ \E returncode \in ReturnCodes :
             /\ session' = CompletedProcess(returncode)
             /\ \E ls \in LockStates : lock' = [lock EXCEPT ![component] = ls]
             /\ config' \in SessionConfigs(config, component)
             /\ IF returncode # 0
                THEN End(Abort)
                ELSE pc' = "md5_after" /\ outcome' = outcome
    /\ UNCHANGED <<config_before, lock_before, editor_image, cmd, component, components,
                   dockerfile, poetry_lock_md5, md5_after, graph, dependents, validated,
                   builds>>

\* EditDigestAfter with a test of the digest's truth value before the comparison
\* ("if poetry_lock_md5 and poetry_lock_md5 == ..."): None is false
EditDigestAfterTruthy ==
    /\ cmd = "edit" /\ pc = "md5_after"
    /\ Step("md5_after")
    /\ md5_after' = _get_poetry_lock_file_md5_digest(lock, component)
    /\ IF poetry_lock_md5 # None /\ poetry_lock_md5 = md5_after'
       THEN End(Exit(0))
       ELSE pc' = "dependents" /\ outcome' = outcome
    /\ UNCHANGED <<config_before, lock_before, editor_image, cmd, component, components,
                   config, dockerfile, lock, poetry_lock_md5, graph, dependents, session,
                   validated, builds>>

\* EditDigestAfter with the comparison of line 718 inverted
EditDigestAfterInverted ==
    /\ cmd = "edit" /\ pc = "md5_after"
    /\ Step("md5_after")
    /\ md5_after' = _get_poetry_lock_file_md5_digest(lock, component)
    /\ IF poetry_lock_md5 # md5_after'
       THEN End(Exit(0))
       ELSE pc' = "dependents" /\ outcome' = outcome
    /\ UNCHANGED <<config_before, lock_before, editor_image, cmd, component, components,
                   config, dockerfile, lock, poetry_lock_md5, graph, dependents, session,
                   validated, builds>>

\* lines 718-720
EditDigestAfter ==
    /\ cmd = "edit" /\ pc = "md5_after"
    /\ Step("md5_after")
    /\ md5_after' = _get_poetry_lock_file_md5_digest(lock, component)
    /\ IF poetry_lock_md5 = md5_after'
       THEN End(Exit(0))
       ELSE pc' = "dependents" /\ outcome' = outcome
    /\ UNCHANGED <<config_before, lock_before, editor_image, cmd, component, components,
                   config, dockerfile, lock, poetry_lock_md5, graph, dependents, session,
                   validated, builds>>

\* EditGetDependents on the component.yaml files as they were before the session
EditGetDependentsStale ==
    /\ cmd = "edit" /\ pc = "dependents"
    /\ Step("graph")
    /\ graph' = _get_component_graph(config_before)
    /\ IF graph'.kind # "graph"
       THEN End(Uncaught(graph'.kind)) /\ dependents' = dependents
       ELSE /\ dependents' \in _get_dependents_for(graph', component)
            /\ pc' = "build_component" /\ outcome' = outcome
    /\ UNCHANGED <<config_before, lock_before, editor_image, cmd, component, components,
                   config, dockerfile, lock, poetry_lock_md5, md5_after, session, validated,
                   builds>>

\* line 722: dependents = _get_dependents_for(component).  The graph is built
\* inside the call, from the component.yaml files as they are read now.
EditGetDependents ==
    /\ cmd = "edit" /\ pc = "dependents"
    /\ Step("graph")
    /\ graph' = _get_component_graph(config)
    /\ IF graph'.kind # "graph"
       THEN End(Uncaught(graph'.kind)) /\ dependents' = dependents
       ELSE /\ dependents' \in _get_dependents_for(graph', component)
            /\ pc' = "build_component" /\ outcome' = outcome
    /\ UNCHANGED <<config_before, lock_before, editor_image, cmd, component, components,
                   config, dockerfile, lock, poetry_lock_md5, md5_after, session, validated,
                   builds>>

\* EditBuildComponent without the test of the return code (line 732 without "if")
EditBuildComponentUnchecked ==
    /\ cmd = "edit" /\ pc = "build_component"
    /\ Step("build_component")
    /\ \E returncode \in ReturnCodes :
          /\ builds' = Append(builds, AladdinBuild(<<component>>, returncode))
          /\ IF dependents # <<>>
             THEN pc' = "build_dependents" /\ outcome' = outcome
             ELSE End(Returned)
    /\ UNCHANGED <<config_before, lock_before, editor_image, cmd, component, components,
                   config, dockerfile, lock, poetry_lock_md5, md5_after, graph, dependents,
                   session, validated>>

\* lines 731-734: _aladdin_build([component.value])
EditBuildComponent ==
    /\ cmd = "edit" /\ pc = "build_component"
    /\ Step("build_component")
    /\ \E returncode \in ReturnCodes :
          /\ builds' = Append(builds, AladdinBuild(<<component>>, returncode))
          /\ IF returncode # 0
             THEN End(Abort)
             ELSE IF dependents # <<>>
                  THEN pc' = "build_dependents" /\ outcome' = outcome
                  ELSE End(Returned)
    /\ UNCHANGED <<config_before, lock_before, editor_image, cmd, component, components,
                   config, dockerfile, lock, poetry_lock_md5, md5_after, graph, dependents,
                   session, validated>>

\* EditBuildDependents without the test of the return code (line 738 without "if")
EditBuildDependentsUnchecked ==
    /\ cmd = "edit" /\ pc = "build_dependents"
    /\ Step("build_dependents")
    /\ \E returncode \in ReturnCodes :
          /\ builds' = Append(builds, AladdinBuild(dependents, returncode))
          /\ End(Returned)
    /\ UNCHANGED <<config_before, lock_before, editor_image, cmd, component, components,
                   config, dockerfile, lock, poetry_lock_md5, md5_after, graph, dependents,
                   session, validated>>

\* lines 736-742: _aladdin_build([dependent.value for dependent in dependents])
EditBuildDependents ==
    /\ cmd = "edit" /\ pc = "build_dependents"
    /\ Step("build_dependents")
    /\ \E returncode \in ReturnCodes :
          /\ builds' = Append(builds, AladdinBuild(dependents, returncode))
          /\ IF returncode # 0 THEN End(Abort) ELSE End(Returned)
    /\ UNCHANGED <<config_before, lock_before, editor_image, cmd, component, components,
                   config, dockerfile, lock, poetry_lock_md5, md5_after, graph, dependents,
                   session, validated>>

(***************************************************************************)
(* build                                                                   *)
(***************************************************************************)
\* _validate_component with the test for the Dockerfile first: a Dockerfile
\* makes the component valid whatever its component.yaml holds
ValidateComponentDockerfileFirst(cfgs, dockerfiles, c) ==
    LET component_yaml == _get_component_config(cfgs, c)
    IN  IF dockerfiles[c]
        THEN "ok"
        ELSE IF Truthy(component_yaml) /\ component_yaml.schemaOk THEN "ok" ELSE "Abort"

\* _validate_component: "ok" when it returns, "Abort" when it raises typer.Abort
_validate_component(cfgs, dockerfiles, c) ==
    LET component_yaml == _get_component_config(cfgs, c)
    IN  IF Truthy(component_yaml)
        THEN IF component_yaml.schemaOk THEN "ok" ELSE "Abort"
        ELSE IF dockerfiles[c] THEN "ok" ELSE "Abort"

\* the loop of lines 549-550 over list[i..]: the components validated, up to and
\* including the first that fails
RECURSIVE ValidateFrom(_, _, _, _)
ValidateFrom(cfgs, dockerfiles, list, i) ==
    IF i > Len(list)
    THEN <<>>
    ELSE IF _validate_component(cfgs, dockerfiles, list[i]) = "ok"
         THEN <<list[i]>> \o ValidateFrom(cfgs, dockerfiles, list, i + 1)
         ELSE <<list[i]>>

\* `components or Component`: None and [] are false
ComponentsOrAll(arg) == IF arg.none \/ arg.list = <<>> THEN Component ELSE arg.list

\* BuildValidate that logs the validation errors and goes on to the build
BuildValidateLenient ==
    /\ cmd = "build" /\ pc = "validate"
    /\ Step("validate")
    /\ \/ End(Abort) /\ validated' = validated
       \/ End(Uncaught("SchemaError")) /\ validated' = validated
       \/ /\ validated' = ComponentsOrAll(components)
          /\ pc' = "aladdin_build" /\ outcome' = outcome
    /\ UNCHANGED <<config_before, lock_before, editor_image, cmd, component, components,
                   config, dockerfile, lock, poetry_lock_md5, md5_after, graph, dependents,
                   session, builds>>

\* line 526: _validate_components(components or Component).  The schema file is
\* loaded first: an unreadable file ends in typer.Abort, a malformed schema makes
\* check_schema raise SchemaError.
BuildValidate ==
    /\ cmd = "build" /\ pc = "validate"
    /\ Step("validate")
    /\ \/ End(Abort) /\ validated' = validated
       \/ End(Uncaught("SchemaError")) /\ validated' = validated
       \/ LET list == ComponentsOrAll(components)
          IN  /\ validated' = ValidateFrom(config, dockerfile, list, 1)
              /\ IF \E i \in 1..Len(list) : _validate_component(config, dockerfile, list[i]) # "ok"
                 THEN End(Abort)
                 ELSE pc' = "aladdin_build" /\ outcome' = outcome
    /\ UNCHANGED <<config_before, lock_before, editor_image, cmd, component, components,
                   config, dockerfile, lock, poetry_lock_md5, md5_after, graph, dependents,
                   session, builds>>

\* line 528: raise typer.Exit(_aladdin_build(component.value for component in
\* components).returncode).  The generator expression iterates `components`
\* itself, and iter(None) raises TypeError before _aladdin_build is called.
BuildAladdinBuild ==
    /\ cmd = "build" /\ pc = "aladdin_build"
    /\ Step("aladdin_build")
    /\ IF components.none
       THEN End(Uncaught("TypeError")) /\ builds' = builds
       ELSE \E returncode \in ReturnCodes :
               /\ builds' = Append(builds, AladdinBuild(components.list, returncode))
               /\ End(Exit(returncode))
    /\ UNCHANGED <<config_before, lock_before, editor_image, cmd, component, components,
                   config, dockerfile, lock, poetry_lock_md5, md5_after, graph, dependents,
                   session, validated>>

\* one run of `components edit <component>`
NextEdit ==
    \/ EditReadLamp
    \/ EditInspectImage
    \/ EditDigestBefore
    \/ EditSession
    \/ EditDigestAfter
    \/ EditGetDependents
    \/ EditBuildComponent
    \/ EditBuildDependents

SpecEdit == InitEdit /\ [][NextEdit]_vars

\* one run of `components build [components...]`
NextBuild ==
    \/ BuildValidate
    \/ BuildAladdinBuild

SpecBuild == InitBuild /\ [][NextBuild]_vars

\* one run of either command
Next ==
    \/ NextEdit
    \/ NextBuild

Spec == Init /\ [][Next]_vars

(***************************************************************************)
(* Vocabulary of the properties.                                           *)
(***************************************************************************)
Done == pc = "done"

\* the process exits with code 0
Succeeded == Done /\ outcome.code = 0

\* the process exits with another code
Failed == Done /\ outcome.code # 0

\* the dependency lists as the component.yaml files declare them
Declared(cfgs, c) ==
    IF cfgs[c].kind = "mapping" /\ cfgs[c].hasDeps THEN Range(cfgs[c].deps) ELSE {}

\* A -> B for every registered A that B declares
DeclaredEdges(cfgs) ==
    UNION {{<<A, B>> : A \in Declared(cfgs, B) \cap Components} : B \in Components}

\* the sets that hold the direct successors of c and are closed under successors
ClosedSets(edges, c) ==
    {S \in SUBSET Components :
        /\ \A e \in edges : e[1] = c => e[2] \in S
        /\ \A e \in edges : e[1] \in S => e[2] \in S}

\* the least set that holds the direct successors of c and is closed under
\* successors: everything reachable from c by one or more edges
\* (the quantifiers over one-element sets make TLC evaluate the set once)
Reachable(edges, c) ==
    UNION {{n \in Components : \A S \in closed : n \in S} :
           closed \in {ClosedSets(edges, c)}}

\* the declared edges have a cycle: some non-empty set of components in which
\* every member has a dependent (a self-dependency makes a set of one)
HasCycle(cfgs) ==
    \E declared \in {DeclaredEdges(cfgs)} :
        \E S \in SUBSET Components :
            /\ S # {}
            /\ \A n \in S : \E m \in S : <<n, m>> \in declared

HasUnknownDependency(cfgs) == \E c \in Components : Declared(cfgs, c) \ Components # {}

\* seq lists every member of set once and nothing else
IsPermutationOf(seq, set) ==
    /\ Range(seq) = set
    /\ Len(seq) = Cardinality(set)

\* every edge between two members of seq points forward in seq
RespectsEdges(seq, edges) ==
    \A i, j \in 1..Len(seq) : <<seq[i], seq[j]>> \in edges => i < j

(***************************************************************************)
(* C1: in edit, when the digest taken after the session equals the one     *)
(* taken before it, the command has ended with exit code 0, the build      *)
(* invoker has not been called and no dependency graph has been built.     *)
(***************************************************************************)
C1_UnchangedDigestNoBuild ==
    (cmd = "edit" /\ md5_after # Unassigned /\ poetry_lock_md5 = md5_after)
        => /\ Succeeded
           /\ outcome = Exit(0)
           /\ builds = <<>>
           /\ graph = NoGraph

C1_Witness ==
    /\ cmd = "edit" /\ Done
    /\ md5_after # Unassigned /\ poetry_lock_md5 = md5_after
    /\ md5_after.type = "str"
    /\ HasCycle(config)

(***************************************************************************)
(* C2: in edit, once the command has ended after a successful first build, *)
(* the build invoker has been called with [component] and then, if the     *)
(* component has transitive dependents, exactly once more with all of them *)
(* in an order that respects the edges; without dependents there is no     *)
(* second call.                                                            *)
(***************************************************************************)
C2_BuildCalls ==
    (cmd = "edit" /\ Done /\ builds # <<>> /\ builds[1].returncode = 0)
        => \A declared \in {DeclaredEdges(config)} :
           \A D \in {Reachable(declared, component)} :
               /\ builds[1].components = <<component>>
               /\ IF D = {}
                  THEN Len(builds) = 1
                  ELSE /\ Len(builds) = 2
                       /\ IsPermutationOf(builds[2].components, D)
                       /\ RespectsEdges(builds[2].components, declared)

C2_Witness ==
    /\ cmd = "edit" /\ Done /\ outcome = Returned
    /\ Len(builds) = 2
    /\ Len(builds[2].components) >= 2
    /\ \E i, j \in 1..Len(builds[2].components) :
          <<builds[2].components[i], builds[2].components[j]>> \in DeclaredEdges(config)

(***************************************************************************)
(* C3: in edit, when the interactive session returns a non-zero code the   *)
(* command has ended in failure (typer.Abort); the digest after the        *)
(* session has not been taken, no graph has been built and the build       *)
(* invoker has not been called.                                            *)
(***************************************************************************)
C3_SessionFailureAborts ==
    (cmd = "edit" /\ session.state = "returned" /\ session.returncode # 0)
        => /\ Failed
           /\ outcome = Abort
           /\ md5_after = Unassigned
           /\ graph = NoGraph
           /\ builds = <<>>
           /\ trace[Len(trace)] = "session"

C3_Witness ==
    /\ cmd = "edit" /\ Done
    /\ session.state = "returned" /\ session.returncode # 0
    /\ poetry_lock_md5.type = "str"

(***************************************************************************)
(* C4: in edit, when the build of the edited component alone fails the     *)
(* command has ended in failure (typer.Abort) and the build invoker has    *)
(* not been called for the dependents.                                     *)
(***************************************************************************)
C4_FirstBuildFailureAborts ==
    (cmd = "edit" /\ builds # <<>> /\ builds[1].returncode # 0)
        => /\ Failed
           /\ outcome = Abort
           /\ builds = <<AladdinBuild(<<component>>, builds[1].returncode)>>

C4_Witness ==
    /\ cmd = "edit" /\ Done
    /\ builds # <<>> /\ builds[1].returncode # 0
    /\ dependents # <<>>

\* a non-empty list of edges of `edges`, each starting where the one before
\* ends, the last ending where the first starts
IsCycleOf(cycle, edges) ==
    /\ cycle # <<>>
    /\ \A k \in 1..Len(cycle) : cycle[k] \in edges
    /\ \A k \in 1..(Len(cycle) - 1) : cycle[k][2] = cycle[k + 1][1]
    /\ cycle[Len(cycle)][2] = cycle[1][1]

\* _get_component_graph has just been called: `graph` is its result and `config`
\* is what it read (neither changes in the steps that follow)
GraphCalled == trace # <<>> /\ trace[Len(trace)] = "graph"

\* ... and it returned a graph
GraphReturned == GraphCalled /\ graph.kind = "graph"

\* an exception left _get_component_graph: the caller holds no graph
NothingReturned == graph.kind # "graph" /\ graph.nodes = {} /\ graph.edges = {}

\* every component.yaml loads as a dictionary (no empty file)
AllConfigsLoadAsDict == \A c \in Components : config[c].kind # "null"

(***************************************************************************)
(* C5: in edit and in build, when the component.yaml files declare a cycle *)
(* or an unregistered dependency, the command fails and the build invoker  *)
(* is not called even once.                                                *)
(***************************************************************************)
C5_BrokenGraphNeverBuilds ==
    (HasCycle(config) \/ HasUnknownDependency(config))
        => /\ builds = <<>>
           /\ Done => Failed

(***************************************************************************)
(* C6 as claimed: graph construction over component.yaml files that        *)
(* declare a cycle (a self-dependency included) fails with the             *)
(* cyclic-dependency error, which carries a cycle of the declared edges,   *)
(* and returns no graph.  Stated for the trees in which no component.yaml  *)
(* is an empty file, where an unregistered name is what refutes it.        *)
(***************************************************************************)
C6_CycleAlwaysReported ==
    (GraphCalled /\ HasCycle(config) /\ AllConfigsLoadAsDict)
        => /\ graph.kind = "RuntimeError"
           /\ IsCycleOf(graph.cycle, DeclaredEdges(config))
           /\ NothingReturned

(***************************************************************************)
(* C6 as amended: graph construction over component.yaml files that        *)
(* declare a cycle (a self-dependency included) never returns a graph.  It *)
(* fails with the cyclic-dependency error, which carries a cycle of the    *)
(* declared edges, when every file loads as a dictionary and every         *)
(* declared name is registered; otherwise the exception raised while the   *)
(* edges are added (KeyError, AttributeError) comes first.                 *)
(***************************************************************************)
C6_CycleRejected ==
    (GraphCalled /\ HasCycle(config))
        => /\ NothingReturned
           /\ graph.kind = "RuntimeError" => IsCycleOf(graph.cycle, DeclaredEdges(config))
           /\ graph.kind = "RuntimeError"
                <=> (AllConfigsLoadAsDict /\ ~HasUnknownDependency(config))

C6_Witness ==
    /\ GraphCalled
    /\ graph.kind = "RuntimeError"
    /\ Len(graph.cycle) = 1
    /\ graph.cycle[1][1] = graph.cycle[1][2]

(***************************************************************************)
(* C7: graph construction over component.yaml files that declare an        *)
(* unregistered dependency fails with an error that is not the             *)
(* cyclic-dependency error and that identifies both the declaring          *)
(* component and the missing name; no graph is returned.                   *)
(***************************************************************************)
C7_UnknownDependencyIdentified ==
    (GraphCalled /\ HasUnknownDependency(config))
        => /\ NothingReturned
           /\ graph.kind # "RuntimeError"
           /\ \E c \in Components :
                 \E n \in Declared(config, c) \ Components :
                     c \in Range(graph.args) /\ n \in Range(graph.args)

(***************************************************************************)
(* C8: in every graph that is returned, for all registered A and B the     *)
(* edge A -> B is present exactly when B's component.yaml lists A.         *)
(***************************************************************************)
C8_EdgesMatchDeclarations ==
    GraphReturned
        => /\ graph.edges \subseteq Components \X Components
           /\ \A A, B \in Components :
                 <<A, B>> \in graph.edges <=> A \in Declared(config, B)

C8_Witness ==
    /\ GraphReturned
    /\ \E A, B \in Components :
          /\ A \in Declared(config, B)
          /\ B \notin Declared(config, A)
          /\ <<A, B>> \in graph.edges /\ <<B, A>> \notin graph.edges

(***************************************************************************)
(* C9: in every graph that is returned the node set is exactly the set of  *)
(* registered components, also for a component without component.yaml     *)
(* and without edges.                                                      *)
(***************************************************************************)
C9_NodesAreTheRegistry ==
    GraphReturned => graph.nodes = Components

C9_Witness ==
    /\ GraphReturned
    /\ graph.edges # {}
    /\ \E c \in Components :
          /\ config[c].kind = "absent"
          /\ c \notin EdgeNodes(graph.edges)
          /\ c \in graph.nodes

(***************************************************************************)
(* C10: on every graph that is returned, the dependent set computed for a  *)
(* component C is exactly the set of components reachable from C along one *)
(* or more edges; it is empty when no edge leaves C and never holds C.     *)
(* The tuple `dependents` of edit lists that set for the edited component. *)
(***************************************************************************)
C10_DescendantsAreReachable ==
    GraphReturned
        => /\ \A C \in Components :
                 /\ descendants(graph.edges, C) = Reachable(graph.edges, C)
                 /\ C \notin descendants(graph.edges, C)
                 /\ (\A e \in graph.edges : e[1] # C) => descendants(graph.edges, C) = {}
           /\ Range(dependents) = Reachable(graph.edges, component)

C10_Witness ==
    /\ GraphReturned
    /\ \E n \in Range(dependents) : <<component, n>> \notin graph.edges
    /\ \E C \in Components : descendants(graph.edges, C) = {}

(***************************************************************************)
(* C11: on every graph that is returned, every tuple _get_dependents_for   *)
(* can return for a component lists each of its descendants exactly once   *)
(* and nothing else, and for every edge A -> B between two of them A comes *)
(* before B.  The tuple `dependents` of edit is such a tuple.              *)
(***************************************************************************)
C11_DependentsInDependencyOrder ==
    GraphReturned
        => /\ \A C \in Components :
                 \A D \in {descendants(graph.edges, C)} :
                     \A order \in _get_dependents_for(graph, C) :
                         /\ IsPermutationOf(order, D)
                         /\ RespectsEdges(order, graph.edges)
           /\ dependents \in _get_dependents_for(graph, component)
           /\ IsPermutationOf(dependents, descendants(graph.edges, component))
           /\ RespectsEdges(dependents, graph.edges)

\* shared -> api declared by api ("api depends on shared"): the dependents of
\* an edited component come in the order dependency, dependent
C11_Witness ==
    /\ GraphReturned
    /\ Len(dependents) = 2
    /\ <<component, dependents[1]>> \in graph.edges
    /\ <<dependents[1], dependents[2]>> \in graph.edges
    /\ <<component, dependents[2]>> \notin graph.edges

(***************************************************************************)
(* C12: in edit the dependency graph is built only after the interactive   *)
(* session has returned (and the digest after it has been taken), and from *)
(* the component.yaml files as they are at that moment: the dependents     *)
(* computed, and then rebuilt, are the components that reach the edited    *)
(* one through the dependencies declared after the session, in an order    *)
(* that respects those declarations, whatever the files declared before.   *)
(***************************************************************************)
C12_GraphBuiltAfterSession ==
    /\ (cmd = "edit" /\ graph # NoGraph)
          => session = CompletedProcess(0) /\ md5_after # Unassigned
    /\ GraphCalled => graph = _get_component_graph(config)
    /\ GraphReturned
          => \A declared \in {DeclaredEdges(config)} :
                /\ Range(dependents) = Reachable(declared, component)
                /\ RespectsEdges(dependents, declared)
    /\ (cmd = "edit" /\ Len(builds) = 2) => builds[2].components = dependents

\* the session has made a component depend on the edited one, and it is among
\* the dependents although the files before the session gave it no path
C12_Witness ==
    /\ GraphReturned
    /\ config # config_before
    /\ \E X \in Range(dependents) :
          /\ component \in Declared(config, X)
          /\ component \notin Declared(config_before, X)
          /\ X \notin Reachable(DeclaredEdges(config_before), component)

\* a component whose component.yaml declares no "dependencies": there is no
\* file, or the file is a mapping without the key, or the file is empty
NoDependenciesField(cfg) ==
    cfg.kind \in {"absent", "null"} \/ (cfg.kind = "mapping" /\ ~cfg.hasDeps)

\* the same tree with "dependencies: []" written out in each of those files
WithEmptyList(cfgs) ==
    [c \in Components |->
        IF NoDependenciesField(cfgs[c]) THEN Mapping(TRUE, <<>>, cfgs[c].schemaOk) ELSE cfgs[c]]

(***************************************************************************)
(* C13: graph construction treats a component without component.yaml, and  *)
(* one whose component.yaml exists but has no "dependencies" field, like   *)
(* a component that declares "dependencies: []": the result is the one the *)
(* tree with the empty lists written out gives, and in a returned graph    *)
(* such a component is a node that no edge enters.                         *)
(***************************************************************************)
C13_NoDependenciesIsEmptyList ==
    GraphCalled
        => /\ graph = _get_component_graph(WithEmptyList(config))
           /\ GraphReturned
                 => \A c \in Components :
                       NoDependenciesField(config[c])
                           => /\ c \in graph.nodes
                              /\ \A e \in graph.edges : e[2] # c

\* the edited component's poetry.lock is now as it was before the session
LockFileAsBefore == lock[component] = lock_before[component]

(***************************************************************************)
(* C14: in edit, when the component's poetry.lock is after the session as  *)
(* it was before it - absent both times, or present with the same content  *)
(* - the two digests are equal (both None when the file is absent), and    *)
(* the command has ended with exit code 0 without building a graph and     *)
(* without a call of the build invoker.                                    *)
(***************************************************************************)
C14_SameLockFileIsNoOp ==
    (cmd = "edit" /\ md5_after # Unassigned /\ LockFileAsBefore)
        => /\ poetry_lock_md5 = md5_after
           /\ ~lock[component].exists => (poetry_lock_md5 = None /\ md5_after = None)
           /\ lock[component].exists => md5_after = Str(md5_hexdigest(lock[component].content))
           /\ outcome = Exit(0)
           /\ graph = NoGraph
           /\ builds = <<>>

\* no poetry.lock before the session and none after it
C14_Witness ==
    /\ cmd = "edit" /\ Done
    /\ md5_after = None /\ poetry_lock_md5 = None
    /\ ~lock_before[component].exists /\ ~lock[component].exists
    /\ session = CompletedProcess(0)

(***************************************************************************)
(* C15: in edit, when the build of the edited component succeeds and the   *)
(* build of the dependents fails, the command has ended in failure         *)
(* (typer.Abort); the build invoker has been called exactly twice, once    *)
(* for [component] and once for the dependents, which do not hold the      *)
(* edited component, and the failing call is the last step taken.          *)
(***************************************************************************)
C15_SecondBuildFailureAborts ==
    (cmd = "edit" /\ Len(builds) >= 2
       /\ builds[1].returncode = 0 /\ builds[2].returncode # 0)
        => /\ Failed
           /\ outcome = Abort
           /\ builds = <<AladdinBuild(<<component>>, 0),
                         AladdinBuild(dependents, builds[2].returncode)>>
           /\ component \notin Range(builds[2].components)
           /\ trace[Len(trace)] = "build_dependents"
           /\ Cardinality({k \in 1..Len(trace) :
                               trace[k] \in {"build_component", "build_dependents"}}) = 2

C15_Witness ==
    /\ cmd = "edit" /\ Done
    /\ Len(builds) = 2
    /\ builds[1].returncode = 0 /\ builds[2].returncode # 0
    /\ Len(dependents) >= 2

\* the components `build` was asked for: those named, or all of them
Requested == ComponentsOrAll(components)

\* _validate_component accepts every requested component
AllRequestedValid ==
    \A i \in 1..Len(Requested) : _validate_component(config, dockerfile, Requested[i]) = "ok"

(***************************************************************************)
(* C16: in build, when a requested component fails validation the build    *)
(* invoker is never called and the command ends in failure; the build      *)
(* invoker is called, and the command is about to call it, only after      *)
(* _validate_component has been called for every requested component and   *)
(* has accepted each, and validation is the only step taken before it.     *)
(***************************************************************************)
C16_ValidationBeforeBuild ==
    cmd = "build"
        => /\ ~AllRequestedValid => (builds = <<>> /\ (Done => Failed))
           /\ (~AllRequestedValid /\ validated # <<>>) => outcome = Abort
           /\ (pc = "aladdin_build" \/ builds # <<>>)
                 => /\ AllRequestedValid
                    /\ validated = Requested
                    /\ trace[1] = "validate"
           /\ builds # <<>> => trace = <<"validate", "aladdin_build">>

\* the second of two requested components is rejected after the first passed
C16_Witness ==
    /\ cmd = "build" /\ Done /\ outcome = Abort
    /\ Len(components.list) = 2
    /\ validated = components.list
    /\ _validate_component(config, dockerfile, validated[1]) = "ok"
    /\ _validate_component(config, dockerfile, validated[2]) = "Abort"
    /\ builds = <<>>

\* the rule of C17 for component c of the tree as it is
ValidByRule(c) ==
    \/ config[c].kind = "mapping" /\ config[c].schemaOk
    \/ config[c].kind \in {"absent", "null"} /\ dockerfile[c]

(***************************************************************************)
(* C17: _validate_component accepts a component exactly when its           *)
(* component.yaml is a non-empty document that satisfies the schema, or    *)
(* its component.yaml is missing or empty and the component has a          *)
(* Dockerfile.  In build every component validated before the last one was *)
(* accepted by that rule, and the run was aborted at the last one exactly  *)
(* when the rule rejects it.                                               *)
(***************************************************************************)
C17_ValidationRule ==
    cmd = "build"
        => /\ \A c \in Components :
                 _validate_component(config, dockerfile, c) = "ok" <=> ValidByRule(c)
           /\ \A c \in Components :
                 (config[c].kind = "mapping" /\ ~config[c].schemaOk)
                     => _validate_component(config, dockerfile, c) = "Abort"
           /\ \A c \in Components :
                 (config[c].kind \in {"absent", "null"} /\ ~dockerfile[c])
                     => _validate_component(config, dockerfile, c) = "Abort"
           /\ validated # <<>>
                 => /\ \A i \in 1..(Len(validated) - 1) : ValidByRule(validated[i])
                    /\ outcome = Abort <=> ~ValidByRule(validated[Len(validated)])

\* a component.yaml that violates the schema is rejected next to a Dockerfile
C17_Witness ==
    /\ cmd = "build" /\ Done /\ outcome = Abort
    /\ validated # <<>>
    /\ \E c \in {validated[Len(validated)]} :
          config[c].kind = "mapping" /\ ~config[c].schemaOk /\ dockerfile[c]

\* the session created the edited component's poetry.lock, or deleted it
LockFileCreatedOrDeleted == lock[component].exists # lock_before[component].exists

(***************************************************************************)
(* C18 as claimed: in edit, when the session (ended with return code 0)    *)
(* has created the component's poetry.lock or deleted it, the command      *)
(* ends with the build invoker called for the component.  Stated for the   *)
(* trees in which no component.yaml is an empty file.                      *)
(***************************************************************************)
C18_LockFileChangeRebuilds ==
    (cmd = "edit" /\ Done /\ session = CompletedProcess(0) /\ LockFileCreatedOrDeleted
       /\ AllConfigsLoadAsDict)
        => /\ builds # <<>>
           /\ builds[1].components = <<component>>

(***************************************************************************)
(* C18 as amended: None, the digest of a missing poetry.lock, differs from *)
(* the digest of every poetry.lock that exists, an empty one included.  In *)
(* edit, when the session ended with return code 0 and has created or      *)
(* deleted the component's poetry.lock, the two digests differ, the        *)
(* command does not exit as unchanged and goes on to build the dependency  *)
(* graph; the build invoker is called, first for [component], exactly when *)
(* graph construction returns a graph.                                     *)
(***************************************************************************)
C18_LockFileChangeIsAChange ==
    /\ \A ls \in LockStates :
          ls.exists
              => _get_poetry_lock_file_md5_digest([c \in Components |-> ls], component)
                     # _get_poetry_lock_file_md5_digest([c \in Components |-> NoLockFile],
                                                        component)
    /\ (cmd = "edit" /\ md5_after # Unassigned /\ LockFileCreatedOrDeleted)
          => /\ poetry_lock_md5 # md5_after
             /\ (poetry_lock_md5 = None) # (md5_after = None)
             /\ outcome # Exit(0)
             /\ Done => graph # NoGraph
             /\ Done => (builds # <<>> <=> graph.kind = "graph")
             /\ builds # <<>> => builds[1].components = <<component>>

\* the session has created an empty poetry.lock, and the component was built
C18_Witness ==
    /\ cmd = "edit" /\ Done
    /\ ~lock_before[component].exists
    /\ lock[component] = LockFile("")
    /\ builds # <<>> /\ builds[1] = AladdinBuild(<<component>>, 0)

\* the steps of edit, in the order of its statements
EditSteps ==
    <<"lamp", "inspect", "md5_before", "session", "md5_after", "graph", "build_component",
      "build_dependents">>

(***************************************************************************)
(* C19: in edit, when docker inspect finds no editor image the command has *)
(* ended in failure (typer.Abort) right after the image check: no digest   *)
(* has been taken, the session has not been started and the build invoker  *)
(* has not been called.  In every run the steps taken are an initial part  *)
(* of: read lamp.json, image check, digest before, session, digest after,  *)
(* graph build, build of the component, build of the dependents; and each  *)
(* result exists only once its step has been taken.                        *)
(***************************************************************************)
C19_StepsInOrder ==
    cmd = "edit"
        => /\ editor_image = "missing"
                 => /\ Failed
                    /\ outcome = Abort
                    /\ trace = <<"lamp", "inspect">>
                    /\ poetry_lock_md5 = Unassigned
                    /\ session = NotRun
                    /\ md5_after = Unassigned
                    /\ graph = NoGraph
                    /\ builds = <<>>
           /\ Len(trace) <= Len(EditSteps)
           /\ \A k \in 1..Len(trace) : trace[k] = EditSteps[k]
           /\ editor_image # "unchecked" <=> Len(trace) >= 2
           /\ poetry_lock_md5 # Unassigned <=> Len(trace) >= 3
           /\ session # NotRun <=> Len(trace) >= 4
           /\ md5_after # Unassigned <=> Len(trace) >= 5
           /\ graph # NoGraph <=> Len(trace) >= 6
           /\ Len(builds) = (IF Len(trace) <= 6 THEN 0 ELSE Len(trace) - 6)

C19_Witness ==
    /\ cmd = "edit" /\ Done
    /\ editor_image = "missing"
    /\ outcome = Abort
    /\ lock[component].exists

====
